---- MODULE Spec2Model ----
(***************************************************************************)
(* Model of TranscriptSummarizer (src/transcript_summarizer.py) and of the *)
(* result handling of main (src/main.py).                                  *)
(*                                                                         *)
(* Text is a sequence of Unicode code points, file content a sequence of   *)
(* bytes.  A file is named by a record [dir, stem, suffix]: dir is the     *)
(* sequence of directory names down to the file, stem the pieces of the    *)
(* file name before the suffix (their concatenation is the stem), suffix   *)
(* the extension with its dot.  Time is counted in tenths of a second, so  *)
(* that the paid mode's 0.2 s is the integer 2.                            *)
(***************************************************************************)
EXTENDS Integers, Sequences, FiniteSets, TLC

VARIABLES
    fs,                   \* the regular files: [dir, stem, suffix] -> bytes
    dirs,                 \* the directories that exist
    written,              \* history: an output file was opened for writing since the call
    api_mode,             \* self.api_mode
    total_input_tokens,   \* self.total_input_tokens
    total_output_tokens,  \* self.total_output_tokens
    pc,                   \* the position of the program
    caller,               \* who called the running leaf operation
    input_folder,         \* process_folder's argument
    output_folder,        \* process_folder's argument
    txt_files,            \* process_folder's local txt_files
    idx,                  \* 1-based position in txt_files of the file in progress
    processed_count,      \* process_folder's local
    failed_count,         \* process_folder's local
    result,               \* what process_folder handed to its caller
    printed,              \* what main printed about the result
    run,                  \* "first" or "second" execution of the program
    output_file,          \* process_file's local output_file
    summary,              \* process_file's local summary
    log,                  \* history: per finished process_file, the file, what it
                          \*   returned and the step that failed
    firstRun,             \* history: total and output files of the first run
    file_path,            \* read_file_content's argument
    encIdx,               \* read_file_content: position in encodings
    readResult,           \* read_file_content: outcome
    opened,               \* history: a file was opened for reading since the call
    attempt,              \* summarize_text: loop variable
    max_retries,          \* summarize_text: argument
    pendingWait,          \* summarize_text: time slept since the last failed attempt
    sumResult,            \* summarize_text: outcome
    responses,            \* history: the remote responses of this summarize_text call
    callWaits,            \* history: per remote call of this summarize_text call,
                          \*   the time slept between the previous failure and it
    remoteCalled,         \* history: a remote call was made since the call
    nSummarize            \* history: summarize_text calls made directly

fsVars == <<fs, dirs, written>>
tokenVars == <<total_input_tokens, total_output_tokens>>
loopVars == <<idx, processed_count, failed_count, result, log>>
argVars == <<api_mode, caller, input_folder, output_folder>>
mainVars == <<printed, run, firstRun>>
locVars == <<output_file, summary>>
readVars == <<file_path, encIdx, readResult, opened>>
sumVars == <<attempt, max_retries, pendingWait, sumResult, responses, callWaits,
             remoteCalled, nSummarize>>

vars == <<pc, txt_files, fsVars, tokenVars, loopVars, argVars, mainVars, locVars, readVars,
          sumVars>>

-----------------------------------------------------------------------------
(* Bounds of the model *)

\* longest file content, in bytes, that the reader is tried on
MaxLen == 2
\* largest max_retries summarize_text is called with directly
MaxRetriesBound == 3
\* largest token count one response reports
MaxTokenCount == 2
\* summarize_text calls made in a row on one instance
MaxSummarizeCalls == 2

-----------------------------------------------------------------------------
(* API_MODES *)

Modes == {"free", "paid"}

\* API_MODES[mode]['delay_seconds'], in tenths of a second (4 s, 0.2 s)
delay_seconds(mode) == IF mode = "free" THEN 40 ELSE 2

\* API_MODES[mode]['model_name'], cut at its '-' and '.' characters
model_name(mode) ==
    IF mode = "free"
    THEN <<"gemini", "-", "1", ".", "5", "-", "flash", "-", "latest">>
    ELSE <<"gemini", "-", "2", ".", "5", "-", "flash", "-", "preview", "-", "05", "-", "20">>

-----------------------------------------------------------------------------
(* The codecs behind open(file_path, 'r', encoding=...) and                 *)
(* open(output_path, 'w', encoding='utf-8').  Decoding is strict: a byte   *)
(* sequence that is not valid in the encoding makes f.read() raise         *)
(* UnicodeDecodeError.  Newline translation is left out: the contents      *)
(* modelled hold no carriage return.                                       *)

\* the bytes file contents are drawn from: 'h', a UTF-8 lead byte that is also
\* a KS X 1001 lead byte, two KS X 1001 bytes that are UTF-8 continuation
\* bytes, and a byte valid in none of the encodings
ByteAlphabet == {104, 194, 161, 176, 255}

IsContinuation(x) == x >= 128 /\ x <= 191

RECURSIVE Utf8DecodeFrom(_, _, _)
Utf8DecodeFrom(b, i, acc) ==
    IF i > Len(b) THEN [ok |-> TRUE, text |-> acc]
    ELSE
      LET c == b[i]
          n == Len(b) - i
      IN  IF c < 128 THEN Utf8DecodeFrom(b, i + 1, Append(acc, c))
          ELSE IF c >= 194 /\ c <= 223 /\ n >= 1 /\ IsContinuation(b[i + 1])
          THEN Utf8DecodeFrom(b, i + 2, Append(acc, (c - 192) * 64 + (b[i + 1] - 128)))
          ELSE IF c >= 224 /\ c <= 239 /\ n >= 2
                  /\ b[i + 1] >= (IF c = 224 THEN 160 ELSE 128)
                  /\ b[i + 1] <= (IF c = 237 THEN 159 ELSE 191)
                  /\ IsContinuation(b[i + 2])
          THEN Utf8DecodeFrom(b, i + 3,
                   Append(acc, (c - 224) * 4096 + (b[i + 1] - 128) * 64 + (b[i + 2] - 128)))
          ELSE IF c >= 240 /\ c <= 244 /\ n >= 3
                  /\ b[i + 1] >= (IF c = 240 THEN 144 ELSE 128)
                  /\ b[i + 1] <= (IF c = 244 THEN 143 ELSE 191)
                  /\ IsContinuation(b[i + 2]) /\ IsContinuation(b[i + 3])
          THEN Utf8DecodeFrom(b, i + 4,
                   Append(acc, (c - 240) * 262144 + (b[i + 1] - 128) * 4096
                               + (b[i + 2] - 128) * 64 + (b[i + 3] - 128)))
          ELSE [ok |-> FALSE, text |-> <<>>]

Utf8Decode(b) == Utf8DecodeFrom(b, 1, <<>>)

Utf8EncodeChar(cp) ==
    IF cp < 128 THEN <<cp>>
    ELSE IF cp < 2048 THEN <<192 + (cp \div 64), 128 + (cp % 64)>>
    ELSE IF cp < 65536
    THEN <<224 + (cp \div 4096), 128 + ((cp \div 64) % 64), 128 + (cp % 64)>>
    ELSE <<240 + (cp \div 262144), 128 + ((cp \div 4096) % 64),
           128 + ((cp \div 64) % 64), 128 + (cp % 64)>>

RECURSIVE Utf8Encode(_)
Utf8Encode(text) ==
    IF text = <<>> THEN <<>>
    ELSE Utf8EncodeChar(Head(text)) \o Utf8Encode(Tail(text))

\* cp949 (Unified Hangul Code) on the two-byte sequences over ByteAlphabet:
\* lead byte, trail byte -> code point
Cp949Pairs ==
    <<194, 104>> :> 54778 @@ <<194, 194>> :> 51807 @@ <<194, 161>> :> 51669 @@
    <<194, 176>> :> 51704 @@ <<161, 104>> :> 51403 @@ <<161, 194>> :> 8804 @@
    <<161, 161>> :> 12288 @@ <<161, 176>> :> 8220 @@ <<176, 104>> :> 52931 @@
    <<176, 194>> :> 44116 @@ <<176, 161>> :> 44032 @@ <<176, 176>> :> 44057

\* euc-kr is KS X 1001 alone: the pairs of cp949 whose trail byte is A1..FE
EucKrPairs == [p \in {q \in DOMAIN Cp949Pairs : q[2] >= 161} |-> Cp949Pairs[p]]

RECURSIVE DbcsDecodeFrom(_, _, _, _)
DbcsDecodeFrom(pairs, b, i, acc) ==
    IF i > Len(b) THEN [ok |-> TRUE, text |-> acc]
    ELSE IF b[i] < 128 THEN DbcsDecodeFrom(pairs, b, i + 1, Append(acc, b[i]))
    ELSE IF i < Len(b) /\ <<b[i], b[i + 1]>> \in DOMAIN pairs
    THEN DbcsDecodeFrom(pairs, b, i + 2, Append(acc, pairs[<<b[i], b[i + 1]>>]))
    ELSE [ok |-> FALSE, text |-> <<>>]

Decode(encoding, b) ==
    IF encoding = "utf-8" THEN Utf8Decode(b)
    ELSE IF encoding = "cp949" THEN DbcsDecodeFrom(Cp949Pairs, b, 1, <<>>)
    ELSE DbcsDecodeFrom(EucKrPairs, b, 1, <<>>)

\* read_file_content's local list
encodings == <<"utf-8", "cp949", "euc-kr">>

\* the byte sequences of length at most n over ByteAlphabet
BytesUpTo(n) == UNION {[1..k -> ByteAlphabet] : k \in 0..n}


-----------------------------------------------------------------------------
(* Paths *)

IsPrefix(p, q) == Len(p) <= Len(q) /\ SubSeq(q, 1, Len(p)) = p

\* the directories that mkdir(parents=True, exist_ok=True) of d makes exist
Parents(d) == {SubSeq(d, 1, k) : k \in 1..Len(d)}

\* Path.exists(): a directory, or a regular file (a name without suffix is
\* the file whose stem is that name)
IsFileAt(p) ==
    /\ p # <<>>
    /\ [dir |-> SubSeq(p, 1, Len(p) - 1), stem |-> <<p[Len(p)]>>, suffix |-> ""] \in DOMAIN fs
Exists(p) == p \in dirs \/ IsFileAt(p)
IsDir(p) == p \in dirs

\* the sequences that list every element of S once
RECURSIVE Orderings(_)
Orderings(S) ==
    IF S = {} THEN {<<>>}
    ELSE UNION {{<<x>> \o o : o \in Orderings(S \ {x})} : x \in S}

\* find_txt_files: input_folder.rglob("*.txt"), the files at any depth below
\* folder whose name ends in ".txt" (no directory of the model has a suffix)
find_txt_files(folder) ==
    {f \in DOMAIN fs : IsPrefix(folder, f.dir) /\ f.suffix = ".txt"}

\* process_file: input_file.relative_to(input_folder).parent
relative_parent(f, folder) == SubSeq(f.dir, Len(folder) + 1, Len(f.dir))

\* process_file: model_name.replace('-', '_').replace('.', '_')
model_name_clean(mode) ==
    [i \in DOMAIN model_name(mode) |->
        IF model_name(mode)[i] \in {"-", "."} THEN "_" ELSE model_name(mode)[i]]

\* process_file: output_folder / relative_path.parent /
\*               f"{input_file.stem}_summary_{model_name_clean}{input_file.suffix}"
OutputPath(f, folder, out, mode) ==
    [dir |-> out \o relative_parent(f, folder),
     stem |-> f.stem \o <<"_summary_">> \o model_name_clean(mode),
     suffix |-> f.suffix]

-----------------------------------------------------------------------------
(* Values *)

NoResult == [pending |-> TRUE]
NoRead == [kind |-> "pending", text |-> <<>>, names_file |-> FALSE]
NoSummary == [kind |-> "pending", text |-> <<>>, attempts |-> 0, cause |-> "none"]
NoFile == [dir |-> <<>>, stem |-> <<>>, suffix |-> ""]
NoFirstRun == [total |-> -1, outputs |-> {}, clean |-> FALSE]

\* usage_metadata of a response: absent; token counts; a prompt_token_count
\* that is no number; a candidates_token_count that is no number
NoUsage == [kind |-> "absent", in |-> 0, out |-> 0]
Usages ==
    {NoUsage}
    \cup {[kind |-> "counts", in |-> a, out |-> b] : a, b \in 1..MaxTokenCount}
    \cup {[kind |-> "bad_in", in |-> 0, out |-> b] : b \in 1..MaxTokenCount}
    \cup {[kind |-> "bad_out", in |-> a, out |-> 0] : a \in 1..MaxTokenCount}

\* what self.model.generate_content does: it raises, or returns a response
\* with a text (possibly empty) and usage metadata
Throws == [raises |-> TRUE, text |-> <<>>, usage |-> NoUsage]
Empty == [raises |-> FALSE, text |-> <<>>, usage |-> NoUsage]
Text(t, u) == [raises |-> FALSE, text |-> t, usage |-> u]

\* every response, for summarize_text on its own
AllResponses == {Throws, Empty} \cup {Text(<<104>>, u) : u \in Usages}
\* the responses a batch is run against
BatchResponses ==
    {Throws, Empty, Text(<<104>>, NoUsage),
     Text(<<44032, 104>>, [kind |-> "counts", in |-> 1, out |-> 1])}
\* a remote client whose calls all succeed
OkResponses == {Text(<<104>>, NoUsage), Text(<<44032, 104>>, NoUsage)}


-----------------------------------------------------------------------------
(* process_folder and process_file: what they hand back *)

\* summarize_text's default max_retries
DefaultMaxRetries == 3

\* check_dependencies: it imports google.generativeai and dotenv again.  The
\* module itself imported both when it was loaded (lines 6-7), so for any
\* TranscriptSummarizer that exists the imports succeed.
check_dependencies == TRUE

\* line 278
DependencyReport == [success |-> FALSE, error |-> "missing library"]
\* lines 282 and 285
InvalidInput == [raised |-> "ValueError"]
\* line 295
EmptyReport == [success |-> TRUE, processed |-> 0, failed |-> 0]
\* lines 309-314
CountReport(n, p, f) == [success |-> TRUE, total |-> n, processed |-> p, failed |-> f]

\* faulty variant: the is_dir check of line 284 is forgotten
ValidInputExistsOnly(folder) == Exists(folder)

\* lines 281-285
ValidInput(folder) == Exists(folder) /\ IsDir(folder)

\* lines 304-307 and 309-321: process_file returned ok; count it, go on with
\* the next file or return the report
FileDone(ok) ==
    LET p == processed_count + (IF ok THEN 1 ELSE 0)
        f == failed_count + (IF ok THEN 0 ELSE 1)
    IN  /\ processed_count' = p
        /\ failed_count' = f
        /\ log' = Append(log, [file |-> txt_files[idx], ok |-> ok,
                                step |-> IF ok THEN "done" ELSE pc])
        /\ IF idx < Len(txt_files)
           THEN /\ idx' = idx + 1
                /\ pc' = "file"
                /\ result' = result
           ELSE /\ idx' = idx
                /\ pc' = "returned"
                /\ result' = CountReport(Len(txt_files), p, f)

\* faulty variant: process_file lets the exception through, which ends process_folder
process_file_reraise ==
    /\ pc' = "raised"
    /\ result' = [raised |-> "Exception"]
    /\ UNCHANGED <<idx, processed_count, failed_count, log>>

\* lines 261-263: process_file catches the exception of any step and returns False
process_file_except == FileDone(FALSE)

\* the files below the output folder
OutputFiles == {f \in DOMAIN fs : IsPrefix(output_folder, f.dir)}

-----------------------------------------------------------------------------
(* read_file_content *)

\* line 147: UnicodeDecodeError takes five arguments; constructed with one it
\* raises TypeError("function takes exactly 5 arguments (1 given)"), and that
\* is the exception that leaves read_file_content
ExhaustedError == [kind |-> "TypeError", text |-> <<>>, names_file |-> FALSE]

\* lines 136-147, one pass of the loop over encodings[k]; io: open or read
\* fails with an OSError
TryEncoding(path, k, io) ==
    IF path \notin DOMAIN fs \/ io
    THEN [kind |-> "OSError", text |-> <<>>, names_file |-> TRUE]
    ELSE LET d == Decode(encodings[k], fs[path])
         IN  IF d.ok THEN [kind |-> "text", text |-> d.text, names_file |-> FALSE]
             ELSE IF k < Len(encodings)
             THEN [kind |-> "continue", text |-> <<>>, names_file |-> FALSE]
             ELSE ExhaustedError

-----------------------------------------------------------------------------
(* summarize_text *)

\* lines 169-172: the delay before an attempt that is not the first
attempt_delay(a, mode) == IF a > 0 THEN delay_seconds(mode) ELSE 0

\* faulty variant: 2 * attempt for 2 ** attempt
retry_delay_linear(a, mode) == (2 * a) * 10 + delay_seconds(mode)

\* line 201: (2 ** attempt) + delay_seconds, in tenths of a second
retry_delay(a, mode) == (2 ^ a) * 10 + delay_seconds(mode)

\* faulty variant: off by one, a retry is granted after the last attempt
AttemptsRemainOneMore(a, mr) == a < mr

\* line 199
AttemptsRemain(a, mr) == a < mr - 1

\* line 175: response.text is truthy
ResponseOk(r) == ~r.raises /\ r.text # <<>>

ResponseKind(r) == IF r.raises THEN "throw" ELSE IF r.text = <<>> THEN "empty" ELSE "text"

\* faulty variant: the totals are assigned the counts, not increased by them
TokensAssigned(ti, to, u) ==
    IF u.kind = "counts" THEN <<u.in, u.out>>
    ELSE IF u.kind = "bad_out" THEN <<u.in, to>>
    ELSE <<ti, to>>

\* lines 177-191: the totals after a response with usage metadata u
TokensAfter(ti, to, u) ==
    IF u.kind = "counts" THEN <<ti + u.in, to + u.out>>
    ELSE IF u.kind = "bad_out" THEN <<ti + u.in, to>>
    ELSE <<ti, to>>

\* the locals of a summarize_text call at its start
BeginSummarize(mr) ==
    /\ attempt' = 0
    /\ max_retries' = mr
    /\ pendingWait' = 0
    /\ sumResult' = NoSummary
    /\ responses' = <<>>
    /\ callWaits' = <<>>


-----------------------------------------------------------------------------
(* Actions *)

\* process_folder, lines 276-298: the checks, the output folder, the discovery
ProcessFolder ==
    /\ pc = "call"
    /\ UNCHANGED <<fs, written, tokenVars, argVars, mainVars, locVars, readVars, sumVars>>
    /\ IF ~check_dependencies
       THEN /\ result' = DependencyReport
            /\ pc' = "returned"
            /\ UNCHANGED <<dirs, txt_files, idx, processed_count, failed_count, log>>
       ELSE IF ~ValidInput(input_folder)
       THEN /\ result' = InvalidInput
            /\ pc' = "raised"
            /\ UNCHANGED <<dirs, txt_files, idx, processed_count, failed_count, log>>
       ELSE /\ dirs' = dirs \cup Parents(output_folder)
            /\ \E order \in Orderings(find_txt_files(input_folder)) :
                 /\ txt_files' = order
                 /\ IF order = <<>>
                    THEN /\ result' = EmptyReport
                         /\ pc' = "returned"
                         /\ UNCHANGED <<idx, processed_count, failed_count, log>>
                    ELSE /\ result' = result
                         /\ pc' = "file"
                         /\ idx' = 1
                         /\ processed_count' = 0
                         /\ failed_count' = 0
                         /\ log' = <<>>

\* process_file, lines 241-251: the output path, then read_file_content
ProcessFileBegin ==
    /\ pc = "file"
    /\ output_file' = OutputPath(txt_files[idx], input_folder, output_folder, api_mode)
    /\ summary' = <<>>
    /\ file_path' = txt_files[idx]
    /\ encIdx' = 1
    /\ readResult' = NoRead
    /\ pc' = "read"
    /\ UNCHANGED <<opened, txt_files, fsVars, tokenVars, loopVars, argVars, mainVars, sumVars>>

\* read_file_content, lines 135-147: one candidate encoding
ReadTry(IOs) ==
    /\ pc = "read"
    /\ \E io \in IOs :
        LET r == TryEncoding(file_path, encIdx, io)
        IN  /\ opened' = TRUE
            /\ file_path' = file_path
            /\ UNCHANGED <<txt_files, fsVars, tokenVars, argVars, mainVars, locVars,
                           remoteCalled, nSummarize>>
            /\ IF r.kind = "continue"
               THEN /\ encIdx' = encIdx + 1
                    /\ readResult' = readResult
                    /\ pc' = "read"
                    /\ UNCHANGED <<loopVars, attempt, max_retries, pendingWait, sumResult,
                                   responses, callWaits>>
               ELSE /\ encIdx' = encIdx
                    /\ readResult' = r
                    /\ IF caller = "direct"
                       THEN /\ pc' = "read_done"
                            /\ UNCHANGED <<loopVars, attempt, max_retries, pendingWait,
                                           sumResult, responses, callWaits>>
                       ELSE IF r.kind = "text"
                       THEN \* line 254: summarize_text(content)
                            /\ pc' = "attempt"
                            /\ BeginSummarize(DefaultMaxRetries)
                            /\ UNCHANGED loopVars
                       ELSE /\ process_file_except
                            /\ UNCHANGED <<attempt, max_retries, pendingWait, sumResult,
                                           responses, callWaits>>

\* summarize_text called on its own with max_retries = mr
SummarizeCall ==
    /\ pc = "sum_idle"
    /\ nSummarize < MaxSummarizeCalls
    /\ \E mr \in 1..MaxRetriesBound : BeginSummarize(mr)
    /\ nSummarize' = nSummarize + 1
    /\ pc' = "attempt"
    /\ UNCHANGED <<remoteCalled, txt_files, fsVars, tokenVars, loopVars, argVars, mainVars,
                   locVars, readVars>>

\* summarize_text, lines 166-205: one attempt
SumAttempt(Resps) ==
    /\ pc = "attempt"
    /\ \E r \in Resps :
        LET waited == pendingWait + attempt_delay(attempt, api_mode)
            tok == TokensAfter(total_input_tokens, total_output_tokens, r.usage)
        IN  /\ responses' = Append(responses, [kind |-> ResponseKind(r), text |-> r.text,
                                                usage |-> r.usage])
            /\ callWaits' = Append(callWaits, waited)
            /\ remoteCalled' = TRUE
            /\ UNCHANGED <<max_retries, nSummarize, txt_files, fsVars, argVars, mainVars,
                           readVars, output_file>>
            /\ IF ResponseOk(r)
               THEN /\ total_input_tokens' = tok[1]
                    /\ total_output_tokens' = tok[2]
                    /\ sumResult' = [kind |-> "text", text |-> r.text,
                                     attempts |-> attempt + 1, cause |-> "none"]
                    /\ attempt' = attempt
                    /\ pendingWait' = 0
                    /\ UNCHANGED loopVars
                    /\ IF caller = "direct"
                       THEN pc' = "sum_idle" /\ summary' = summary
                       ELSE pc' = "save" /\ summary' = r.text
               ELSE IF AttemptsRemain(attempt, max_retries)
               THEN /\ pendingWait' = retry_delay(attempt, api_mode)
                    /\ attempt' = attempt + 1
                    /\ sumResult' = sumResult
                    /\ pc' = "attempt"
                    /\ UNCHANGED <<tokenVars, loopVars, summary>>
               ELSE \* line 205
                    /\ sumResult' = [kind |-> "Exception", text |-> <<>>,
                                     attempts |-> max_retries, cause |-> ResponseKind(r)]
                    /\ attempt' = attempt
                    /\ pendingWait' = 0
                    /\ UNCHANGED <<tokenVars, summary>>
                    /\ IF caller = "direct"
                       THEN pc' = "sum_idle" /\ UNCHANGED loopVars
                       ELSE process_file_except

\* save_summary, lines 215-226, and lines 257-259: the parent directories are
\* made; then the file is written ("ok"), cannot be opened ("open_error"), or
\* is opened, which truncates it, and the write fails ("write_error")
SaveOutcomes == {"ok", "open_error", "write_error"}

Save(Outs) ==
    /\ pc = "save"
    /\ \E o \in Outs :
        /\ dirs' = dirs \cup Parents(output_file.dir)
        /\ IF o = "open_error"
           THEN fs' = fs /\ written' = written
           ELSE /\ fs' = (output_file :> (IF o = "ok" THEN Utf8Encode(summary) ELSE <<>>)) @@ fs
                /\ written' = TRUE
        /\ IF o = "ok" THEN FileDone(TRUE) ELSE process_file_except
    /\ UNCHANGED <<txt_files, tokenVars, argVars, mainVars, locVars, readVars, sumVars>>

\* main, lines 203-227: what it prints about the outcome of process_folder
MainReport ==
    /\ pc \in {"returned", "raised"}
    /\ printed' = IF pc = "raised" THEN "exception"
                  ELSE IF ~result.success THEN "error"
                  ELSE IF "total" \in DOMAIN result THEN "counts"
                  ELSE "KeyError"
    /\ pc' = "exit"
    /\ UNCHANGED <<run, firstRun, txt_files, fsVars, tokenVars, loopVars, argVars, locVars,
                   readVars, sumVars>>

\* the program is started again on the same folders: a new TranscriptSummarizer
\* (lines 45-47), then process_folder
Rerun ==
    /\ pc = "exit"
    /\ run = "first"
    /\ run' = "second"
    /\ firstRun' = [total |-> IF "total" \in DOMAIN result THEN result.total ELSE -1,
                    outputs |-> OutputFiles,
                    clean |-> printed = "counts" /\ result.failed = 0]
    /\ total_input_tokens' = 0
    /\ total_output_tokens' = 0
    /\ pc' = "call"
    /\ result' = NoResult
    /\ printed' = "nothing"
    /\ txt_files' = <<>>
    /\ idx' = 1
    /\ processed_count' = 0
    /\ failed_count' = 0
    /\ log' = <<>>
    /\ written' = FALSE
    /\ opened' = FALSE
    /\ remoteCalled' = FALSE
    /\ UNCHANGED <<fs, dirs, argVars, locVars, file_path, encIdx, readResult, attempt,
                   max_retries, pendingWait, sumResult, responses, callWaits, nSummarize>>

-----------------------------------------------------------------------------
(* Initial states *)

NoFiles == [f \in {} |-> <<>>]

Idle ==
    /\ written = FALSE
    /\ total_input_tokens = 0
    /\ total_output_tokens = 0
    /\ txt_files = <<>>
    /\ idx = 1
    /\ processed_count = 0
    /\ failed_count = 0
    /\ result = NoResult
    /\ printed = "nothing"
    /\ run = "first"
    /\ output_file = NoFile
    /\ summary = <<>>
    /\ log = <<>>
    /\ firstRun = NoFirstRun
    /\ encIdx = 1
    /\ readResult = NoRead
    /\ opened = FALSE
    /\ attempt = 0
    /\ max_retries = DefaultMaxRetries
    /\ pendingWait = 0
    /\ sumResult = NoSummary
    /\ responses = <<>>
    /\ callWaits = <<>>
    /\ remoteCalled = FALSE
    /\ nSummarize = 0

TxtA == [dir |-> <<"in">>, stem |-> <<"a">>, suffix |-> ".txt"]
TxtB == [dir |-> <<"in", "sub">>, stem |-> <<"b">>, suffix |-> ".txt"]
Notes == [dir |-> <<"in">>, stem |-> <<"notes">>, suffix |-> ".md"]
RootAsFile == [dir |-> <<>>, stem |-> <<"in">>, suffix |-> ""]

\* a transcript in UTF-8, one in cp949, one that no candidate encoding decodes
Contents == {<<104>>, <<176, 161>>, <<255>>}

\* the input root: missing, a regular file, or a directory holding notes.md
\* and any of a.txt and sub/b.txt
Trees ==
    {[fs |-> NoFiles, dirs |-> {}], [fs |-> RootAsFile :> <<104>>, dirs |-> {}]}
    \cup {[fs |-> t @@ (Notes :> <<104>>), dirs |-> {<<"in">>, <<"in", "sub">>}] :
            t \in UNION {[S -> Contents] : S \in SUBSET {TxtA, TxtB}}}

\* main.py line 107: the default output folder lies in the input folder
OutputFolders == {<<"out">>, <<"in", "summarized_results">>}

Init ==
    /\ Idle
    /\ \E t \in Trees : fs = t.fs /\ dirs = t.dirs
    /\ api_mode \in Modes
    /\ input_folder = <<"in">>
    /\ output_folder \in OutputFolders
    /\ caller = "process_file"
    /\ file_path = NoFile
    /\ pc = "call"

\* one run of process_folder and of main's report, against any environment
Next ==
    \/ ProcessFolder
    \/ ProcessFileBegin
    \/ ReadTry(BOOLEAN)
    \/ SumAttempt(BatchResponses)
    \/ Save(SaveOutcomes)
    \/ MainReport

Spec == Init /\ [][Next]_vars

\* two runs of the program, every read, remote call and write succeeding
NextRerun ==
    \/ ProcessFolder
    \/ ProcessFileBegin
    \/ ReadTry({FALSE})
    \/ SumAttempt(OkResponses)
    \/ Save({"ok"})
    \/ MainReport
    \/ Rerun

SpecRerun == Init /\ [][NextRerun]_vars

\* read_file_content on its own, on any content of at most MaxLen bytes and
\* on a file that does not exist
InitRead ==
    /\ Idle
    /\ fs \in {NoFiles} \cup {TxtA :> b : b \in BytesUpTo(MaxLen)}
    /\ dirs = {<<"in">>}
    /\ api_mode = "free"
    /\ input_folder = <<"in">>
    /\ output_folder = <<"out">>
    /\ caller = "direct"
    /\ file_path = TxtA
    /\ pc = "read"

NextRead == ReadTry(BOOLEAN)

SpecRead == InitRead /\ [][NextRead]_vars

\* summarize_text on its own, up to MaxSummarizeCalls calls on one instance
InitSum ==
    /\ Idle
    /\ fs = NoFiles
    /\ dirs = {}
    /\ api_mode \in Modes
    /\ input_folder = <<"in">>
    /\ output_folder = <<"out">>
    /\ caller = "direct"
    /\ file_path = NoFile
    /\ pc = "sum_idle"

NextSum ==
    \/ SummarizeCall
    \/ SumAttempt(AllResponses)

SpecSum == InitSum /\ [][NextSum]_vars


-----------------------------------------------------------------------------
(* Properties *)

RECURSIVE SumSeq(_)
SumSeq(q) == IF q = <<>> THEN 0 ELSE Head(q) + SumSeq(Tail(q))

Failed(r) == r.kind # "text"

\* C1: every count report that process_folder returns has a total, processed
\* plus failed equals it, and it is the number of .txt files discovered.
C1_CountsAddUp ==
    (pc = "returned" /\ result.success) =>
        /\ "total" \in DOMAIN result
        /\ result.processed + result.failed = result.total
        /\ result.total = Len(txt_files)

\* C2: once the checks have passed no file's failure ends the batch: while
\* files remain a step is always possible, the files finished so far are the
\* discovered ones in discovery order, each once, nothing is raised, and the
\* report counts as failed exactly the files whose own pipeline failed.
C2_FailureIsolation ==
    /\ pc \in {"file", "read", "attempt", "save"} =>
          /\ ENABLED Next
          /\ idx \in 1..Len(txt_files)
          /\ Len(log) = idx - 1
    /\ pc = "raised" => result = InvalidInput /\ txt_files = <<>> /\ log = <<>>
    /\ \A j \in 1..Len(log) : log[j].file = txt_files[j]
    /\ (pc = "returned" /\ txt_files # <<>>) =>
          /\ Len(log) = Len(txt_files)
          /\ result.failed = Cardinality({j \in 1..Len(log) : ~log[j].ok})
          /\ result.processed = Cardinality({j \in 1..Len(log) : log[j].ok})

\* a first file whose retries were exhausted, a second file processed, and the
\* report returned
C2_Witness ==
    /\ pc = "returned"
    /\ Len(log) = 2
    /\ ~log[1].ok /\ log[1].step = "attempt"
    /\ log[2].ok
    /\ result = CountReport(2, 1, 1)

\* C3: summarize_text makes a remote call only after failed calls and never
\* more than max_retries of them; the first non-empty text ends it, returned
\* after exactly that many calls; max_retries failed calls end it with an
\* exception carrying max_retries and the last failure, and no text.
C3_RetryCount ==
    /\ Len(responses) <= max_retries
    /\ \A i \in 1..(Len(responses) - 1) : Failed(responses[i])
    /\ (responses # <<>> /\ ~Failed(responses[Len(responses)])) =>
          /\ sumResult.kind = "text"
          /\ sumResult.text = responses[Len(responses)].text
          /\ sumResult.attempts = Len(responses)
    /\ (Len(responses) = max_retries /\ Failed(responses[max_retries])) =>
          /\ sumResult.kind = "Exception"
          /\ sumResult.text = <<>>
          /\ sumResult.attempts = max_retries
          /\ sumResult.cause = responses[max_retries].kind
    /\ (Len(responses) < max_retries
            /\ (responses = <<>> \/ Failed(responses[Len(responses)]))) =>
          /\ sumResult.kind = "pending"
          /\ (pc = "attempt" => attempt = Len(responses))

\* two failed calls (one raising, one empty) and then a text, under max_retries = 3
C3_Witness ==
    /\ max_retries = 3
    /\ Len(responses) = 3
    /\ responses[1].kind = "throw"
    /\ responses[2].kind = "empty"
    /\ sumResult.kind = "text"

\* C4: a valid input folder without .txt files yields
\* {success: true, total: 0, processed: 0, failed: 0}.
C4_EmptyFolderReport ==
    (pc = "returned" /\ txt_files = <<>>) => result = CountReport(0, 0, 0)

C5_InvalidRoot == ~Exists(input_folder) \/ ~IsDir(input_folder)

\* C5: called on an input root that is missing or no directory, process_folder
\* raises its ValueError having discovered nothing, created no output folder,
\* opened no file, called no remote model and written no file.
C5_InvalidRootAborts ==
    (C5_InvalidRoot /\ pc # "call") =>
        /\ pc \in {"raised", "exit"}
        /\ result = InvalidInput
        /\ txt_files = <<>>
        /\ output_folder \notin dirs
        /\ ~opened
        /\ ~remoteCalled
        /\ ~written
        /\ OutputFiles = {}

\* the input root is a regular file and process_folder has raised
C5_Witness ==
    /\ IsFileAt(input_folder)
    /\ pc = "raised"
    /\ result = InvalidInput

\* C6: after a failed pre-flight check the caller holds {success: false,
\* error}; in every other case it holds {success, total, processed, failed}.
C6_ResultSurface ==
    pc \in {"returned", "raised"} =>
        IF ~check_dependencies \/ C5_InvalidRoot
        THEN /\ pc = "returned"
             /\ DOMAIN result = {"success", "error"}
             /\ ~result.success
        ELSE /\ pc = "returned"
             /\ DOMAIN result = {"success", "total", "processed", "failed"}

\* C7: a second run on the same folders, both runs without a failed file,
\* reports the total of the first run and leaves the output files of the
\* first run, wherever the output folder lies.
C7_RerunIdempotent ==
    (pc = "exit" /\ run = "second" /\ firstRun.clean
         /\ printed = "counts" /\ result.failed = 0) =>
        /\ result.total = firstRun.total
        /\ OutputFiles = firstRun.outputs

\* C8: read_file_content returns the text of the first candidate that decodes;
\* when no candidate decodes it raises a decoding error that names the file; an
\* I/O failure ends it at the candidate it happened on.
C8_ReadOutcomes ==
    pc = "read_done" =>
        LET decodes(k) == file_path \in DOMAIN fs /\ Decode(encodings[k], fs[file_path]).ok
        IN  /\ \A j \in 1..(encIdx - 1) : ~decodes(j)
            /\ readResult.kind = "text" =>
                  /\ decodes(encIdx)
                  /\ readResult.text = Decode(encodings[encIdx], fs[file_path]).text
            /\ readResult.kind \in {"text", "OSError", "UnicodeDecodeError"}
            /\ readResult.kind = "UnicodeDecodeError" =>
                  /\ readResult.names_file
                  /\ \A k \in DOMAIN encodings : ~decodes(k)

\* C9 as claimed: the time slept between the failure of attempt i and the
\* remote call of attempt i+1 is 2^i + d, and nothing is slept before the
\* first call.
C9_WaitAsClaimed ==
    \A j \in DOMAIN callWaits :
        callWaits[j] = IF j = 1 THEN 0
                       ELSE (2 ^ (j - 2)) * 10 + delay_seconds(api_mode)

\* C9, amended: the time slept between the failure of attempt i and the remote
\* call of attempt i+1 is 2^i + 2d (2^i + d after the failure, d before the
\* call); nothing is slept before the first call or after the last failed
\* attempt; with k failures before the text the sleeps add up to the sum over
\* i < k of 2^i + 2d.
C9_BackoffSchedule ==
    /\ \A j \in DOMAIN callWaits :
          callWaits[j] = IF j = 1 THEN 0
                         ELSE (2 ^ (j - 2)) * 10 + 2 * delay_seconds(api_mode)
    /\ sumResult.kind # "pending" => pendingWait = 0
    /\ sumResult.kind = "text" =>
          LET k == Len(callWaits) - 1
          IN  SumSeq(callWaits) + pendingWait
                  = (2 ^ k - 1) * 10 + 2 * k * delay_seconds(api_mode)
    /\ sumResult.kind = "Exception" =>
          LET k == max_retries - 1
          IN  SumSeq(callWaits) + pendingWait
                  = (2 ^ k - 1) * 10 + 2 * k * delay_seconds(api_mode)

\* free mode: two failures, then the third call returns a text
C9_Witness ==
    /\ api_mode = "free"
    /\ sumResult.kind = "text"
    /\ callWaits = <<0, 90, 100>>

\* C10: the token totals never decrease; they change only in a remote call
\* that returns a non-empty text with usage metadata, by the counts it carries;
\* a call that raises or returns no text leaves them; whatever the metadata,
\* a non-empty text is returned.
C10_TokenAccumulator ==
    [][ LET called == Len(responses') = Len(responses) + 1
            r == responses'[Len(responses')]
            din == total_input_tokens' - total_input_tokens
            dout == total_output_tokens' - total_output_tokens
        IN  /\ din >= 0
            /\ dout >= 0
            /\ ~called => din = 0 /\ dout = 0
            /\ (called /\ Failed(r)) => din = 0 /\ dout = 0
            /\ (called /\ ~Failed(r)) =>
                  /\ sumResult'.kind = "text"
                  /\ sumResult'.text = r.text
                  /\ r.usage.kind = "absent" => din = 0 /\ dout = 0
                  /\ r.usage.kind = "counts" => din = r.usage.in /\ dout = r.usage.out
                  /\ r.usage.kind = "bad_in" => din = 0 /\ dout = 0
                  /\ r.usage.kind = "bad_out" => din = r.usage.in /\ dout = 0
      ]_vars

\* a second call on the same instance has returned a text after a failed
\* attempt, on top of the tokens the first call counted
C10_Witness ==
    /\ nSummarize = 2
    /\ sumResult.kind = "text"
    /\ Len(responses) = 2
    /\ responses[2].usage.kind = "counts"
    /\ total_input_tokens > responses[2].usage.in
    /\ total_output_tokens > responses[2].usage.out


====
